---- MODULE Spec2Model ----
(***************************************************************************)
(* Response lifecycle of one dislash BaseInteraction                      *)
(* (dislash/interactions/interaction.py).                                  *)
(*                                                                         *)
(* The interaction object is shared by several asyncio coroutines: the     *)
(* callers' flows and the delayed self-deletion task created by reply.     *)
(* A coroutine runs without interruption from one await to the next, so    *)
(* every action below is the code between two awaits of one coroutine.     *)
(* An HTTP call is issued by the action that reaches its await and is      *)
(* completed (with success or with a transport error) by a later action.   *)
(***************************************************************************)
EXTENDS Integers, FiniteSets, Sequences, TLC

(* ------------------------------ bounds -------------------------------- *)

\* Number of delayed self-deletion tasks that may be pending at a time.
MaxTasks == 1

(* ------------------------- program constants -------------------------- *)

\* Python's None for the `type` argument of reply.
NoType == 0
\* class ResponseType
Pong == 1
Acknowledge == 1
ChannelMessage == 3
ChannelMessageWithSource == 4
AcknowledgeWithSource == 5
DeferredUpdateMessage == 6
UpdateMessage == 7
\* datetime.timedelta(seconds=3), in seconds
AckWindow == 3
\* datetime.timedelta(minutes=15), in seconds
TokenWindow == 15 * 60
\* len(embeds) > 10, len(components) > 5
MaxEmbeds == 10
MaxComponents == 5

(* ------------------------------ inputs -------------------------------- *)

\* The caller flows that use the interaction concurrently: a flow and one
\* flow overlapping it (the overlaps of the code are between two
\* coroutines).
Callers == {1, 2}
TaskIds == 1..MaxTasks

\* Values the caller may pass as `type`: None or any response type code.
TypeArgs == {NoType, Pong, 2, ChannelMessage, ChannelMessageWithSource,
             AcknowledgeWithSource, DeferredUpdateMessage, UpdateMessage}

\* Ages (utcnow() - created_at, in seconds) at which the interaction is
\* observed: around the 3 second and the 15 minute deadlines.
Ages == {0, AckWindow, AckWindow + 1, TokenWindow, TokenWindow + 1}

\* A list argument (embeds, components): None, or its length and whether
\* all its elements have the required class.
NoList == [given |-> FALSE, len |-> 0, ok |-> TRUE]
List(n, ok) == [given |-> TRUE, len |-> n, ok |-> ok]

\* content is "None" or a text; embed is "None", an "Embed" or a value of
\* another class.
Payload(content, embed, embeds, components) ==
    [content |-> content, embed |-> embed, embeds |-> embeds,
     components |-> components]

NoPayload == Payload("None", "None", NoList, NoList)

Payloads ==
    { NoPayload,
      Payload("hi", "None", NoList, NoList),
      Payload("None", "Embed", NoList, NoList),
      Payload("hi", "NotEmbed", NoList, NoList),
      Payload("None", "None", List(MaxEmbeds, TRUE), NoList),
      Payload("hi", "None", List(MaxEmbeds + 1, TRUE), NoList),
      Payload("hi", "Embed", List(1, TRUE), NoList),
      Payload("hi", "None", List(1, FALSE), List(MaxComponents, TRUE)),
      Payload("hi", "None", NoList, List(MaxComponents, TRUE)),
      Payload("hi", "None", NoList, List(MaxComponents + 1, TRUE)),
      Payload("None", "None", NoList, List(1, FALSE)) }

(* ------------------------------- state -------------------------------- *)

VARIABLES
    sent,        \* self._sent
    editable,    \* self.editable
    hasChannel,  \* self.channel is not None
    age,         \* utcnow() - self.created_at, in seconds
    calls,       \* per caller flow: the call it is in, or how its last ended
    tasks,       \* the delayed self-deletion tasks created by reply: "none",
                 \* "sleeping", "delete" (awaiting the DELETE request), or
                 \* how the task ended: "done" after its delete returned,
                 \* "swallowed" after its delete raised
    args         \* CallSpec: the arguments of the call that is followed

vars == <<sent, editable, hasChannel, age, calls, tasks, args>>

\* A caller flow's call: the method, the await it is suspended at ("done"
\* once the call has returned or raised), what it returned or raised, and,
\* while reply awaits the callback request, the response type it resolved.
Call(op, pc, res, typ) == [op |-> op, pc |-> pc, res |-> res, typ |-> typ]

\* A call suspended at an await.
Awaiting(op, pc) == Call(op, pc, "none", NoType)

\* A call that has returned or raised.
Returned(op, res) == Call(op, "done", res, NoType)

\* A caller flow that has made no call yet.
Idle == Returned("none", "none")

(* --------------------------- pure functions --------------------------- *)

\* Faulty variant: the deadlines are reached at, not after, 3 s and 15 min.
Expired_AtDeadline(s, a) ==
    IF s THEN a >= TokenWindow ELSE a >= AckWindow

\* Faulty variant: the 15 minute window is used whether or not a response was sent.
Expired_IgnoresSent(s, a) == a > TokenWindow

\* BaseInteraction.expired
Expired(s, a) ==
    IF s THEN a > TokenWindow ELSE a > AckWindow

\* Faulty variant: a message with an embeds list does not count as empty.
IsEmptyMessage_CountsEmbeds(p) ==
    p.content = "None" /\ p.embed = "None" /\ ~p.embeds.given

\* reply: is_empty_message
IsEmptyMessage(p) == p.content = "None" /\ p.embed = "None"

\* reply: "Which callback type is it"
ResolveType(type, p, hide_user_input) ==
    IF type = NoType
    THEN IF IsEmptyMessage(p)
         THEN (IF hide_user_input THEN 1 ELSE 5)
         ELSE (IF hide_user_input THEN 3 ELSE 4)
    ELSE type

\* Faulty variant: the _sent flag is not looked at.
UseChannelSend_IgnoresSent(s, a, type) == Expired(s, a) \/ type = 3

\* reply: "Sometimes we have to use TextChannel.send() instead"
UseChannelSend(s, a, type) == s \/ Expired(s, a) \/ type = 3

\* Faulty variant: lists of exactly 10 embeds or 5 components are rejected.
Validate_RejectsAtLimit(p) ==
    IF p.embed # "None" /\ p.embeds.given THEN "InvalidArgument"
    ELSE IF p.embed # "None" /\ p.embed # "Embed" THEN "InvalidArgument"
    ELSE IF p.embed = "None" /\ p.embeds.given /\ p.embeds.len >= MaxEmbeds
         THEN "InvalidArgument"
    ELSE IF p.embed = "None" /\ p.embeds.given /\ ~p.embeds.ok
         THEN "InvalidArgument"
    ELSE IF p.components.given /\ p.components.len >= MaxComponents
         THEN "InvalidArgument"
    ELSE IF p.components.given /\ ~p.components.ok THEN "InvalidArgument"
    ELSE "ok"

\* reply, edit: the "Embed or embeds" and the components checks; "ok" or
\* the exception raised.
Validate(p) ==
    IF p.embed # "None" /\ p.embeds.given THEN "InvalidArgument"
    ELSE IF p.embed # "None" /\ p.embed # "Embed" THEN "InvalidArgument"
    ELSE IF p.embed = "None" /\ p.embeds.given /\ p.embeds.len > MaxEmbeds
         THEN "InvalidArgument"
    ELSE IF p.embed = "None" /\ p.embeds.given /\ ~p.embeds.ok
         THEN "InvalidArgument"
    ELSE IF p.components.given /\ p.components.len > MaxComponents
         THEN "InvalidArgument"
    ELSE IF p.components.given /\ ~p.components.ok THEN "InvalidArgument"
    ELSE "ok"

\* reply: "Same for type-1 and type-2 messages"
IsAckOnly(type) == type \in {1, 2}

\* The arguments of a reply or edit call (delete_after and
\* fetch_response_message aside, which are drawn where reply reads them).
Args(op, p, hide_user_input, type, ephemeral) ==
    [op |-> op, p |-> p, hide |-> hide_user_input, type |-> type,
     eph |-> ephemeral]

NoArgs == Args("none", NoPayload, FALSE, NoType, FALSE)

(* ------------------------------- Init --------------------------------- *)

Init ==
    /\ sent = FALSE
    /\ editable = FALSE
    /\ hasChannel \in BOOLEAN
    /\ age = 0
    /\ calls = [c \in Callers |-> Idle]
    /\ tasks = [t \in TaskIds |-> "none"]
    /\ args = NoArgs

(* ------------------------------ helpers ------------------------------- *)

\* The flow is in no call: it may make one.
CanStart(c) == calls[c].pc = "done"

\* The task slots that hold no running task: create_task can use them.
FreeTasks == {t \in TaskIds : tasks[t] \notin {"sleeping", "delete"}}

(* ------------------------------- reply -------------------------------- *)

\* reply, from its call to its first await (or to the exception it raises).
Reply(c, p, hide_user_input, type) ==
    /\ CanStart(c)
    /\ LET t == ResolveType(type, p, hide_user_input)
       IN calls' = [calls EXCEPT ![c] =
            IF UseChannelSend(sent, age, t)
            THEN IF hasChannel
                 THEN Awaiting("reply", "send")
                 ELSE \* self.channel is None, which has no attribute send
                      Returned("reply", "AttributeError")
            ELSE IF Validate(p) # "ok"
                 THEN Returned("reply", Validate(p))
                 ELSE Call("reply", "post", "none", t)]
    /\ UNCHANGED <<args, sent, editable, hasChannel, age, tasks>>

\* Faulty variant: a message sent through channel.send counts as an
\* editable response.
ReplySendDone_MarksEditable(c, ok) ==
    /\ calls[c].op = "reply" /\ calls[c].pc = "send"
    /\ editable' = (editable \/ ok)
    /\ calls' = [calls EXCEPT ![c] =
                   Returned("reply", IF ok THEN "Message" ELSE "HTTPException")]
    /\ UNCHANGED <<args, sent, hasChannel, age, tasks>>

\* reply: channel.send returns the message or raises.
ReplySendDone(c, ok) ==
    /\ calls[c].op = "reply" /\ calls[c].pc = "send"
    /\ calls' = [calls EXCEPT ![c] =
                   Returned("reply", IF ok THEN "Message" ELSE "HTTPException")]
    /\ UNCHANGED <<args, sent, editable, hasChannel, age, tasks>>

\* Faulty variant: the interaction counts as responded to once the callback
\* request was made, whether or not it succeeded.
ReplyPostFailed_MarksSent(c) ==
    /\ calls[c].op = "reply" /\ calls[c].pc = "post"
    /\ sent' = TRUE
    /\ calls' = [calls EXCEPT ![c] = Returned("reply", "HTTPException")]
    /\ UNCHANGED <<args, editable, hasChannel, age, tasks>>

\* Faulty variant: the response counts as editable although the callback
\* request failed.
ReplyPostFailed_SetsEditable(c) ==
    /\ calls[c].op = "reply" /\ calls[c].pc = "post"
    /\ editable' = TRUE
    /\ calls' = [calls EXCEPT ![c] = Returned("reply", "HTTPException")]
    /\ UNCHANGED <<args, sent, hasChannel, age, tasks>>

\* reply: the callback request raises; the exception leaves reply.
ReplyPostFailed(c) ==
    /\ calls[c].op = "reply" /\ calls[c].pc = "post"
    /\ calls' = [calls EXCEPT ![c] = Returned("reply", "HTTPException")]
    /\ UNCHANGED <<args, sent, editable, hasChannel, age, tasks>>

\* Faulty variant: type 5 is handled like the other message types.
ReplyAfterCallback_NoType5Case(c, type, ephemeral, delete_after, fetch_response_message) ==
    /\ sent' = TRUE
    /\ IF ephemeral \/ IsAckOnly(type)
       THEN /\ calls' = [calls EXCEPT ![c] = Returned("reply", "None")]
            /\ UNCHANGED <<editable, tasks>>
       ELSE /\ editable' = TRUE
            /\ IF delete_after
               THEN /\ FreeTasks # {}
                    /\ tasks' = [tasks EXCEPT
                                   ![CHOOSE t \in FreeTasks : TRUE] = "sleeping"]
               ELSE UNCHANGED tasks
            /\ calls' = [calls EXCEPT ![c] =
                 IF fetch_response_message
                 THEN Awaiting("reply", "fetch")
                 ELSE Returned("reply", "None")]
    /\ UNCHANGED <<args, hasChannel, age>>

\* reply, from `self._sent = True` to its return or to the await inside
\* self.edit(), with the response type and the arguments it reads there.
ReplyAfterCallback(c, type, ephemeral, delete_after, fetch_response_message) ==
    /\ sent' = TRUE
    /\ IF type = 5
       THEN /\ editable' = TRUE
            /\ calls' = [calls EXCEPT ![c] = Returned("reply", "None")]
            /\ UNCHANGED tasks
       ELSE IF ephemeral \/ IsAckOnly(type)
       THEN /\ calls' = [calls EXCEPT ![c] = Returned("reply", "None")]
            /\ UNCHANGED <<editable, tasks>>
       ELSE /\ editable' = TRUE
            /\ IF delete_after
               THEN \* self._client.loop.create_task(self.delete_after(..))
                    /\ FreeTasks # {}
                    /\ tasks' = [tasks EXCEPT
                                   ![CHOOSE t \in FreeTasks : TRUE] = "sleeping"]
               ELSE UNCHANGED tasks
            /\ calls' = [calls EXCEPT ![c] =
                 IF fetch_response_message
                 THEN \* return await self.edit(): editable was just set
                      Awaiting("reply", "fetch")
                 ELSE Returned("reply", "None")]
    /\ UNCHANGED <<args, hasChannel, age>>

\* Faulty variant: the ephemeral argument is not looked at after the callback.
ReplyPostDone_IgnoresEphemeral(c, ephemeral, delete_after, fetch_response_message) ==
    /\ calls[c].op = "reply" /\ calls[c].pc = "post"
    /\ ReplyAfterCallback(c, calls[c].typ, FALSE, delete_after,
                          fetch_response_message)

\* reply: the callback request returns and reply runs on. ephemeral,
\* delete_after and fetch_response_message are arguments of the call; no
\* state depends on them before this point.
ReplyPostDone(c, ephemeral, delete_after, fetch_response_message) ==
    /\ calls[c].op = "reply" /\ calls[c].pc = "post"
    /\ ReplyAfterCallback(c, calls[c].typ, ephemeral, delete_after,
                          fetch_response_message)

\* reply: the PATCH of `return await self.edit()` returns or raises.
ReplyFetchDone(c, ok) ==
    /\ calls[c].op = "reply" /\ calls[c].pc = "fetch"
    /\ calls' = [calls EXCEPT ![c] =
                   Returned("reply", IF ok THEN "Message" ELSE "HTTPException")]
    /\ UNCHANGED <<args, sent, editable, hasChannel, age, tasks>>

(* -------------------------------- edit -------------------------------- *)

\* Faulty variant: the payload is validated before editable is looked at.
Edit_ValidatesFirst(c, p) ==
    /\ CanStart(c)
    /\ calls' = [calls EXCEPT ![c] =
         IF Validate(p) # "ok" THEN Returned("edit", Validate(p))
         ELSE IF ~editable THEN Returned("edit", "TypeError")
         ELSE Awaiting("edit", "patch")]
    /\ UNCHANGED <<args, sent, editable, hasChannel, age, tasks>>

\* edit, from its call to its await (or to the exception it raises).
Edit(c, p) ==
    /\ CanStart(c)
    /\ calls' = [calls EXCEPT ![c] =
         IF ~editable THEN Returned("edit", "TypeError")
         ELSE IF Validate(p) # "ok" THEN Returned("edit", Validate(p))
         ELSE Awaiting("edit", "patch")]
    /\ UNCHANGED <<args, sent, editable, hasChannel, age, tasks>>

\* Faulty variant: a failed PATCH makes the response uneditable.
EditDone_ClearsOnFailure(c, ok) ==
    /\ calls[c].op = "edit" /\ calls[c].pc = "patch"
    /\ editable' = (editable /\ ok)
    /\ calls' = [calls EXCEPT ![c] =
                   Returned("edit", IF ok THEN "Message" ELSE "HTTPException")]
    /\ UNCHANGED <<args, sent, hasChannel, age, tasks>>

\* edit: the PATCH request returns the message or raises.
EditDone(c, ok) ==
    /\ calls[c].op = "edit" /\ calls[c].pc = "patch"
    /\ calls' = [calls EXCEPT ![c] =
                   Returned("edit", IF ok THEN "Message" ELSE "HTTPException")]
    /\ UNCHANGED <<args, sent, editable, hasChannel, age, tasks>>

(* ------------------------------- delete ------------------------------- *)

\* delete, from its call to its await (or to the exception it raises).
Delete(c) ==
    /\ CanStart(c)
    /\ calls' = [calls EXCEPT ![c] =
         IF ~editable THEN Returned("delete", "TypeError")
         ELSE Awaiting("delete", "delete")]
    /\ UNCHANGED <<args, sent, editable, hasChannel, age, tasks>>

\* Faulty variant: delete also forgets that a response was sent.
DeleteDone_ResetsSent(c) ==
    /\ calls[c].op = "delete" /\ calls[c].pc = "delete"
    /\ editable' = FALSE
    /\ sent' = FALSE
    /\ calls' = [calls EXCEPT ![c] = Returned("delete", "None")]
    /\ UNCHANGED <<args, hasChannel, age, tasks>>

\* Faulty variant: delete leaves editable set.
DeleteDone_KeepsEditable(c) ==
    /\ calls[c].op = "delete" /\ calls[c].pc = "delete"
    /\ calls' = [calls EXCEPT ![c] = Returned("delete", "None")]
    /\ UNCHANGED <<args, sent, editable, hasChannel, age, tasks>>

\* delete: the DELETE request returns, `self.editable = False`.
DeleteDone(c) ==
    /\ calls[c].op = "delete" /\ calls[c].pc = "delete"
    /\ editable' = FALSE
    /\ calls' = [calls EXCEPT ![c] = Returned("delete", "None")]
    /\ UNCHANGED <<args, sent, hasChannel, age, tasks>>

\* delete: the DELETE request raises; the exception leaves delete.
DeleteFailed(c) ==
    /\ calls[c].op = "delete" /\ calls[c].pc = "delete"
    /\ calls' = [calls EXCEPT ![c] = Returned("delete", "HTTPException")]
    /\ UNCHANGED <<args, sent, editable, hasChannel, age, tasks>>

(* ---------------------------- delete_after ---------------------------- *)

\* delete_after: asyncio.sleep(delay) is over and self.delete() is called;
\* its TypeError is swallowed by the bare except and the task ends.
TaskWake(t) ==
    /\ tasks[t] = "sleeping"
    /\ tasks' = [tasks EXCEPT
                   ![t] = IF ~editable THEN "swallowed" ELSE "delete"]
    /\ UNCHANGED <<args, sent, editable, hasChannel, age, calls>>

\* delete_after: the DELETE request of self.delete() returns,
\* `self.editable = False`, and the task ends.
TaskDeleteDone(t) ==
    /\ tasks[t] = "delete"
    /\ editable' = FALSE
    /\ tasks' = [tasks EXCEPT ![t] = "done"]
    /\ UNCHANGED <<args, sent, hasChannel, age, calls>>

\* Faulty variant: the error of the DELETE request leaves delete_after.
TaskDeleteFailed_Raises(t) ==
    /\ tasks[t] = "delete"
    /\ tasks' = [tasks EXCEPT ![t] = "raised"]
    /\ UNCHANGED <<args, sent, editable, hasChannel, age, calls>>

\* delete_after: the DELETE request raises; the bare except swallows it.
TaskDeleteFailed(t) ==
    /\ tasks[t] = "delete"
    /\ tasks' = [tasks EXCEPT ![t] = "swallowed"]
    /\ UNCHANGED <<args, sent, editable, hasChannel, age, calls>>

(* ------------------------------ followup ------------------------------ *)

\* Faulty variant: followup counts as the response to the interaction.
Followup_MarksSent(c) ==
    /\ CanStart(c)
    /\ sent' = TRUE
    /\ calls' = [calls EXCEPT ![c] = Awaiting("followup", "hook")]
    /\ UNCHANGED <<args, editable, hasChannel, age, tasks>>

\* followup, from its call to the await of self.webhook.send.
Followup(c) ==
    /\ CanStart(c)
    /\ calls' = [calls EXCEPT ![c] = Awaiting("followup", "hook")]
    /\ UNCHANGED <<args, sent, editable, hasChannel, age, tasks>>

\* followup: webhook.send returns the message data or raises.
FollowupDone(c, ok) ==
    /\ calls[c].op = "followup" /\ calls[c].pc = "hook"
    /\ calls' = [calls EXCEPT ![c] =
                   Returned("followup",
                            IF ok THEN "Message" ELSE "HTTPException")]
    /\ UNCHANGED <<args, sent, editable, hasChannel, age, tasks>>

(* -------------------------------- time -------------------------------- *)

\* Wall-clock time passes: utcnow() - created_at grows.
Tick(a) ==
    /\ a > age
    /\ age' = a
    /\ UNCHANGED <<args, sent, editable, hasChannel, calls, tasks>>

(* ---------------------------- specification --------------------------- *)

Next ==
    \/ \E c \in Callers, p \in Payloads, hide \in BOOLEAN, type \in TypeArgs :
          Reply(c, p, hide, type)
    \/ \E c \in Callers, ok \in BOOLEAN : ReplySendDone(c, ok)
    \/ \E c \in Callers : ReplyPostFailed(c)
    \/ \E c \in Callers, eph \in BOOLEAN, da \in BOOLEAN, fetch \in BOOLEAN :
          ReplyPostDone(c, eph, da, fetch)
    \/ \E c \in Callers, ok \in BOOLEAN : ReplyFetchDone(c, ok)
    \/ \E c \in Callers, p \in Payloads : Edit(c, p)
    \/ \E c \in Callers, ok \in BOOLEAN : EditDone(c, ok)
    \/ \E c \in Callers : Delete(c)
    \/ \E c \in Callers : DeleteDone(c)
    \/ \E c \in Callers : DeleteFailed(c)
    \/ \E t \in TaskIds : TaskWake(t)
    \/ \E t \in TaskIds : TaskDeleteDone(t)
    \/ \E t \in TaskIds : TaskDeleteFailed(t)
    \/ \E c \in Callers : Followup(c)
    \/ \E c \in Callers, ok \in BOOLEAN : FollowupDone(c, ok)
    \/ \E a \in Ages : Tick(a)

\* Any number of calls by the caller flows, in any interleaving.
Spec == Init /\ [][Next]_vars

(* ------------------- one call, with its arguments --------------------- *)

\* The reply and edit calls whose arguments are followed.
ArgSets ==
    { Args("reply", p, hide, type, eph) :
        p \in Payloads, hide \in BOOLEAN, type \in TypeArgs, eph \in BOOLEAN }
    \cup { Args("edit", p, FALSE, NoType, FALSE) : p \in Payloads }

\* The interaction in any state earlier calls can have left it in, and a
\* flow that is about to make its first call on it.
CallInit ==
    /\ sent \in BOOLEAN
    /\ editable \in BOOLEAN
    /\ editable => sent
    /\ hasChannel \in BOOLEAN
    /\ age \in {0} \cup Ages
    /\ calls = [c \in Callers |-> Idle]
    /\ tasks = [t \in TaskIds |-> "none"]
    /\ args \in ArgSets

\* The first flow makes the call args describes; once that call is over,
\* the second flow may edit and delete. The delayed delete runs beside both.
CallNext ==
    \/ /\ args.op = "reply" /\ calls[1] = Idle
       /\ Reply(1, args.p, args.hide, args.type)
    \/ /\ args.op = "edit" /\ calls[1] = Idle
       /\ Edit(1, args.p)
    \/ \E ok \in BOOLEAN : ReplySendDone(1, ok)
    \/ ReplyPostFailed(1)
    \/ \E da \in BOOLEAN, fetch \in BOOLEAN : ReplyPostDone(1, args.eph, da, fetch)
    \/ \E ok \in BOOLEAN : ReplyFetchDone(1, ok)
    \/ \E ok \in BOOLEAN : EditDone(1, ok)
    \/ /\ calls[1] # Idle /\ calls[1].pc = "done"
       /\ \/ Edit(2, NoPayload)
          \/ Delete(2)
    \/ \E ok \in BOOLEAN : EditDone(2, ok)
    \/ DeleteDone(2)
    \/ DeleteFailed(2)
    \/ \E t \in TaskIds : TaskWake(t)
    \/ \E t \in TaskIds : TaskDeleteDone(t)
    \/ \E t \in TaskIds : TaskDeleteFailed(t)

\* One reply or edit call with given arguments, from any interaction state.
CallSpec == CallInit /\ [][CallNext]_vars

(* ------------------------ calls that do not overlap ------------------- *)

\* No call on the interaction is running: every flow's call has returned
\* or raised, and no delayed delete is inside its self.delete().
Quiet ==
    /\ \A c \in Callers : calls[c].pc = "done"
    /\ \A t \in TaskIds : tasks[t] # "delete"

\* As Next, but a call (a flow's, or the self.delete() of a delayed delete
\* that wakes) starts only when no other call is running.
SeqNext ==
    \/ /\ Quiet
       /\ \/ \E c \in Callers, p \in Payloads, hide \in BOOLEAN,
                type \in TypeArgs : Reply(c, p, hide, type)
          \/ \E c \in Callers, p \in Payloads : Edit(c, p)
          \/ \E c \in Callers : Delete(c)
          \/ \E c \in Callers : Followup(c)
          \/ \E t \in TaskIds : TaskWake(t)
    \/ \E c \in Callers, ok \in BOOLEAN : ReplySendDone(c, ok)
    \/ \E c \in Callers : ReplyPostFailed(c)
    \/ \E c \in Callers, eph \in BOOLEAN, da \in BOOLEAN, fetch \in BOOLEAN :
          ReplyPostDone(c, eph, da, fetch)
    \/ \E c \in Callers, ok \in BOOLEAN : ReplyFetchDone(c, ok)
    \/ \E c \in Callers, ok \in BOOLEAN : EditDone(c, ok)
    \/ \E c \in Callers : DeleteDone(c)
    \/ \E c \in Callers : DeleteFailed(c)
    \/ \E t \in TaskIds : TaskDeleteDone(t)
    \/ \E t \in TaskIds : TaskDeleteFailed(t)
    \/ \E c \in Callers, ok \in BOOLEAN : FollowupDone(c, ok)
    \/ \E a \in Ages : Tick(a)

\* Any number of calls by the caller flows, one at a time.
SeqSpec == Init /\ [][SeqNext]_vars

(* ---------------------------- properties ------------------------------ *)

\* The flow c makes a call of method op in this step.
Calls(c, op) ==
    /\ calls[c].pc = "done"
    /\ calls'[c] # calls[c]
    /\ calls'[c].op = op

\* The flow c issues the request it then awaits at pc in this step.
Issues(c, pc) == calls[c].pc # pc /\ calls'[c].pc = pc

\* C1: the sent flag starts false and, under any interleaving of reply,
\* edit, delete, followup and the delayed delete, is never set back to
\* false once it is true (so it changes from false to true at most once).
C1_SentSetOnceNeverReset ==
    /\ sent = FALSE
    /\ [][sent => sent']_vars

\* C1: sent is true and a second callback request, issued before the first
\* returned, is about to set it again, while a delete has already returned.
C1_Witness ==
    /\ sent
    /\ calls[1] = Returned("delete", "None")
    /\ calls[2].pc = "post"

\* The callback request the flow c awaits returns in this step.
CallbackSucceeds(c) ==
    /\ calls[c].pc = "post"
    /\ calls'[c].pc # "post"
    /\ calls'[c].res # "HTTPException"

\* The response type the documentation gives for the followed reply call: the
\* explicit type, or the row of the table for (empty, hide_user_input),
\* where only content and the single embed make a message non-empty.
ExpectedType ==
    LET empty == args.p.content = "None" /\ args.p.embed = "None"
    IN  IF args.type # NoType THEN args.type
        ELSE IF empty /\ args.hide THEN Acknowledge
        ELSE IF empty /\ ~args.hide THEN AcknowledgeWithSource
        ELSE IF ~empty /\ args.hide THEN ChannelMessage
        ELSE ChannelMessageWithSource

\* The interaction is expired, as the documentation states it.
IsExpired == IF sent THEN age > 15 * 60 ELSE age > 3

\* The followed call is a reply that passes both embed and embeds.
BothEmbeds ==
    args.op = "reply" /\ args.p.embed # "None" /\ args.p.embeds.given

\* C2 (CallSpec): a reply called while sent is true, or while the
\* interaction is expired, or with a resolved or explicit type of 3, issues
\* no callback POST: it goes to channel.send (which, without a channel,
\* raises before any request), and neither that step nor the return of
\* channel.send changes sent or editable.
C2_FallbackLeavesFlags ==
    [][ /\ ( Calls(1, "reply") /\ (sent \/ IsExpired \/ ExpectedType = 3) )
           => /\ calls'[1] = IF hasChannel
                             THEN Awaiting("reply", "send")
                             ELSE Returned("reply", "AttributeError")
              /\ sent' = sent /\ editable' = editable
        /\ ( calls[1].pc = "send" /\ calls'[1] # calls[1] )
           => /\ calls'[1].res \in {"Message", "HTTPException"}
              /\ sent' = sent /\ editable' = editable
      ]_vars

\* C2: a reply of type 4 made at age 0 on an interaction that was already
\* responded to is suspended at channel.send.
C2_Witness ==
    /\ args.op = "reply" /\ args.type = ChannelMessageWithSource
    /\ sent /\ age = 0
    /\ calls[1] = Awaiting("reply", "send")

\* C3 (CallSpec): a reply that passes both embed and embeds ends with the
\* validation error, whatever the state of the interaction and its other
\* arguments: it is never suspended at a request (the callback POST or
\* channel.send). Stated for an interaction that has a channel.
C3_BothEmbedsAlwaysRejected ==
    (BothEmbeds /\ hasChannel /\ calls[1] # Idle)
        => calls[1] = Returned("reply", "InvalidArgument")

\* C4 as stated (CallSpec): after a successful callback reply made with
\* ephemeral=true, of any response type, editable is false and a later edit
\* raises the state error without a PATCH.
C4_EphemeralNeverEditable ==
    (args.op = "reply" /\ args.eph /\ calls[1] = Returned("reply", "None"))
        => /\ ~editable
           /\ calls[2].op = "edit" => calls[2] = Returned("edit", "TypeError")

\* C4 amended (CallSpec): after a successful callback reply made with
\* ephemeral=true and a response type other than 5, editable is false (the
\* reply has returned None and left editable as it was) and a later edit
\* raises the state error without a PATCH; with response type 5 the reply
\* sets editable even though it is ephemeral.
C4_EphemeralNotEditableUnlessType5 ==
    /\ [] ( ( /\ args.op = "reply" /\ args.eph /\ ExpectedType # 5
              /\ calls[1] = Returned("reply", "None") )
            => /\ ~editable
               /\ calls[2].op = "edit"
                    => calls[2] = Returned("edit", "TypeError") )
    /\ [][ /\ (CallbackSucceeds(1) /\ args.eph /\ ExpectedType # 5)
              => /\ editable' = editable
                 /\ calls'[1] = Returned("reply", "None")
           /\ (CallbackSucceeds(1) /\ args.eph /\ ExpectedType = 5)
              => editable'
         ]_vars

\* C4: an ephemeral reply of type 4 has returned from its callback, and an
\* edit made after it has raised TypeError.
C4_Witness ==
    /\ args.op = "reply" /\ args.eph
    /\ args.type = ChannelMessageWithSource
    /\ sent /\ ~editable
    /\ calls[1] = Returned("reply", "None")
    /\ calls[2] = Returned("edit", "TypeError")

\* C5 (CallSpec): a successful callback reply that is neither ephemeral nor
\* of an ack-only type sets editable; while editable is set an edit issues
\* its PATCH and leaves editable set, and a delete issues its DELETE; the
\* return of that DELETE clears editable; and a delete called while
\* editable is clear raises the state error without a DELETE.
C5_EditThenDeleteOnce ==
    [][ /\ ( /\ CallbackSucceeds(1) /\ ~args.eph
             /\ calls[1].typ \notin {1, 2} )
           => editable'
        /\ (editable /\ Calls(2, "edit"))
           => calls'[2] = Awaiting("edit", "patch") /\ editable'
        /\ (calls[2].pc = "patch" /\ calls'[2] # calls[2])
           => /\ calls'[2].res \in {"Message", "HTTPException"}
              /\ editable' = editable
        /\ (editable /\ Calls(2, "delete"))
           => calls'[2] = Awaiting("delete", "delete") /\ editable'
        /\ (calls[2].pc = "delete" /\ calls'[2] = Returned("delete", "None"))
           => ~editable'
        /\ (~editable /\ Calls(2, "delete"))
           => calls'[2] = Returned("delete", "TypeError") /\ ~editable'
      ]_vars

\* C5: a type 4, non-ephemeral reply has returned from its callback without
\* scheduling a delayed delete, the response has since been deleted, and
\* the delete called after that has raised TypeError.
C5_Witness ==
    /\ args.op = "reply" /\ ~args.eph
    /\ args.type = ChannelMessageWithSource
    /\ calls[1] = Returned("reply", "None")
    /\ sent /\ ~editable
    /\ \A t \in TaskIds : tasks[t] = "none"
    /\ calls[2] = Returned("delete", "TypeError")

\* C6 (CallSpec): an edit or a delete called while editable is false ends
\* at once with the state error, whatever the payload of the edit (the
\* check precedes validation), without a PATCH or DELETE and without
\* changing sent or editable.
C6_NotEditableRaises ==
    [][ \A c \in Callers :
          /\ (~editable /\ Calls(c, "edit"))
             => /\ calls'[c] = Returned("edit", "TypeError")
                /\ sent' = sent /\ editable' = editable
          /\ (~editable /\ Calls(c, "delete"))
             => /\ calls'[c] = Returned("delete", "TypeError")
                /\ sent' = sent /\ editable' = editable
      ]_vars

\* C6: an edit whose payload fails validation, called while editable was
\* false, has raised TypeError, and so has a delete.
C6_Witness ==
    /\ args.op = "edit" /\ Validate(args.p) # "ok"
    /\ ~editable
    /\ calls[1] = Returned("edit", "TypeError")
    /\ calls[2] = Returned("delete", "TypeError")

\* The DELETE requests in flight.
DeletesInFlight ==
    Cardinality({c \in Callers : calls[c].pc = "delete"})
    + Cardinality({t \in TaskIds : tasks[t] = "delete"})

\* C7 (Spec): deletes that overlap on an interaction, the delayed delete
\* among them, issue at most one DELETE: no DELETE is issued while another
\* is in flight.
C7_NoOverlappingDelete == DeletesInFlight <= 1

\* A reply that cannot use the callback any more: the interaction was
\* responded to, or is older than the 3 seconds.
Inert == sent \/ age > AckWindow

\* C8 (Spec): an expired interaction is inert and stays inert; every reply
\* called on an inert interaction goes to channel.send and no callback POST
\* is issued; and an interaction that was never sent, is older than 3
\* seconds and has no callback in flight keeps sent = false.
C8_ExpiredIsInert ==
    /\ [] (IsExpired => Inert)
    /\ [][ /\ Inert => Inert'
           /\ Inert => \A c \in Callers :
                /\ ~Issues(c, "post")
                /\ Calls(c, "reply")
                     => calls'[c] = IF hasChannel
                                    THEN Awaiting("reply", "send")
                                    ELSE Returned("reply", "AttributeError")
           /\ ( /\ ~sent /\ age > AckWindow
                /\ \A c \in Callers : calls[c].pc # "post" )
              => ~sent'
         ]_vars

\* C8: a reply on an interaction that was never sent and is older than 15
\* minutes has returned the message of channel.send, and sent is false.
C8_Witness ==
    /\ ~sent /\ age > TokenWindow
    /\ calls[1] = Returned("reply", "Message")
    /\ \A c \in Callers : calls[c].pc # "post"

\* C9 (Spec): with sent false the interaction is expired exactly when it is
\* older than 3 seconds, with sent true exactly when it is older than 15
\* minutes, for the sent flag and the age of every reachable state.
C9_ExpiredThresholds ==
    /\ (~sent /\ age <= 3) => ~Expired(sent, age)
    /\ (~sent /\ age > 3) => Expired(sent, age)
    /\ (sent /\ age <= 15 * 60) => ~Expired(sent, age)
    /\ (sent /\ age > 15 * 60) => Expired(sent, age)

\* C9: a sent interaction that is exactly 15 minutes old.
C9_Witness == sent /\ age = 15 * 60 /\ ~Expired(sent, age)

\* C10 (CallSpec): the callback request of a reply carries the explicit
\* type or, without one, the type of the table; a reply for which that type
\* is 3 issues no callback request.
C10_ResolvedType ==
    (args.op = "reply" /\ calls[1].pc = "post")
        => calls[1].typ = ExpectedType /\ ExpectedType # 3

\* C10: a reply without content or embed but with an embeds list, and
\* without a type, awaits a callback of type 5.
C10_Witness ==
    /\ args.op = "reply" /\ args.type = NoType /\ ~args.hide
    /\ args.p.content = "None" /\ args.p.embeds.given
    /\ calls[1].pc = "post" /\ calls[1].typ = AcknowledgeWithSource

\* C11 (Spec): a flow that is in no call can call followup whatever sent,
\* editable and the age are; the call awaits webhook.send, never the
\* callback request; and neither the call nor the return or failure of
\* webhook.send changes sent or editable.
C11_FollowupFrame ==
    /\ [] (\A c \in Callers : CanStart(c) => ENABLED Followup(c))
    /\ [][ \A c \in Callers :
            /\ Calls(c, "followup")
               => /\ calls'[c] = Awaiting("followup", "hook")
                  /\ sent' = sent /\ editable' = editable
            /\ (calls[c].pc = "hook" /\ calls'[c] # calls[c])
               => /\ calls'[c].op = "followup"
                  /\ calls'[c].res \in {"Message", "HTTPException"}
                  /\ sent' = sent /\ editable' = editable
         ]_vars

\* C11: on an expired interaction whose response is editable, one followup
\* has failed and another has returned its message.
C11_Witness ==
    /\ sent /\ editable /\ age > TokenWindow
    /\ calls[1] = Returned("followup", "HTTPException")
    /\ calls[2] = Returned("followup", "Message")

\* What a call that failed has raised.
Errors == {"TypeError", "InvalidArgument", "AttributeError", "HTTPException"}

\* C12 (Spec): editable changes from false to true only in the step of a
\* reply whose callback request returns, and from true to false only in
\* the step of a delete (a caller's, or the one the delayed delete makes)
\* whose DELETE request returns; every step of edit and followup, of a
\* reply routed to channel.send, and every step in which a call or the
\* delayed delete fails leaves editable as it was.
C12_EditableTransitions ==
    [][ /\ (~editable /\ editable') => \E c \in Callers : CallbackSucceeds(c)
        /\ (editable /\ ~editable')
           => \/ \E c \in Callers : /\ calls[c].pc = "delete"
                                    /\ calls'[c] = Returned("delete", "None")
              \/ \E t \in TaskIds : tasks[t] = "delete" /\ tasks'[t] = "done"
        /\ \A c \in Callers :
             ( /\ calls'[c] # calls[c]
               /\ \/ calls'[c].op \in {"edit", "followup"}
                  \/ calls[c].pc \in {"send", "fetch"}
                  \/ calls'[c].pc = "send"
                  \/ calls'[c].res \in Errors )
             => editable' = editable
        /\ \A t \in TaskIds :
             (tasks[t] # "swallowed" /\ tasks'[t] = "swallowed")
             => editable' = editable
      ]_vars

\* C12: the delayed delete has cleared editable, after which an edit has
\* raised the state error, while an earlier PATCH had failed.
C12_Witness ==
    /\ sent /\ ~editable
    /\ \E t \in TaskIds : tasks[t] = "done"
    /\ calls[1] = Returned("edit", "TypeError")
    /\ calls[2] = Returned("edit", "HTTPException")

\* The followed call is a reply with a valid payload and a type other than
\* 3, on an interaction that is not older than 3 seconds: it takes the
\* callback path when the interaction was not responded to.
OnCallbackPath ==
    /\ args.op = "reply" /\ ExpectedType # 3 /\ Validate(args.p) = "ok"
    /\ age <= 3

\* C13 (CallSpec): when the callback request of a reply raises, the reply
\* ends with that error in the same step, without a further request, and
\* sent and editable are false after it as before it; sent changes to true
\* only in the step in which the callback request returns; and a reply
\* that has returned None has had its callback request answered.
C13_CallbackFailure ==
    /\ [][ /\ (calls[1].pc = "post" /\ calls'[1].res = "HTTPException")
              => /\ calls'[1] = Returned("reply", "HTTPException")
                 /\ ~sent /\ ~sent' /\ ~editable /\ ~editable'
           /\ (calls[1] = Returned("reply", "HTTPException"))
              => calls'[1] = calls[1]
           /\ (~sent /\ sent') => CallbackSucceeds(1)
         ]_vars
    /\ [] (calls[1] = Returned("reply", "None") => sent)

\* C13: a reply with a valid payload, made on a fresh interaction, has
\* ended with the transport error of its callback request; sent and
\* editable are false, and an edit made after it has raised the state
\* error.
C13_Witness ==
    /\ OnCallbackPath /\ age = 0
    /\ calls[1] = Returned("reply", "HTTPException")
    /\ ~sent /\ ~editable
    /\ calls[2] = Returned("edit", "TypeError")

\* C14 (Spec): the delayed delete never ends with an exception: when its
\* delete finds editable false (the state error), or its DELETE request
\* raises, the task ends normally, and that step changes no caller flow's
\* call and leaves sent and editable as they were.
C14_DelayedDeleteSwallows ==
    /\ [] (\A t \in TaskIds :
             tasks[t] \in {"none", "sleeping", "delete", "done", "swallowed"})
    /\ [][ \A t \in TaskIds :
            /\ (tasks[t] = "sleeping" /\ ~editable /\ tasks'[t] # tasks[t])
               => tasks'[t] = "swallowed"
            /\ (tasks[t] = "delete" /\ tasks'[t] # tasks[t])
               => tasks'[t] \in {"done", "swallowed"}
            /\ (tasks[t] # "swallowed" /\ tasks'[t] = "swallowed")
               => /\ calls' = calls
                  /\ sent' = sent /\ editable' = editable
         ]_vars

\* C14: the DELETE request of the delayed delete has failed, the task has
\* ended, the response is still editable and the reply that scheduled the
\* task has returned its message.
C14_Witness ==
    /\ \E t \in TaskIds : tasks[t] = "swallowed"
    /\ sent /\ editable
    /\ calls[1] = Returned("reply", "Message")
    /\ calls[2] = Idle

\* The payload of the followed call has elements of the required classes
\* and does not pass both embed and embeds.
ElementsValid ==
    /\ args.p.embed \in {"None", "Embed"}
    /\ ~(args.p.embed # "None" /\ args.p.embeds.given)
    /\ args.p.embeds.ok /\ args.p.components.ok

\* The payload of the followed call has more than 10 embeds or more than 5
\* components.
TooLong ==
    \/ args.p.embeds.given /\ args.p.embeds.len > 10
    \/ args.p.components.given /\ args.p.components.len > 5

\* C15 (CallSpec): a reply on the callback path (not sent, not expired,
\* type other than 3) and an edit made while editable is true, with a
\* payload of valid elements, end at once with the validation error and
\* unchanged flags when the payload has more than 10 embeds or more than 5
\* components, and otherwise (exactly 10 embeds and exactly 5 components
\* included) issue their request, the callback POST or the PATCH.
C15_ListBounds ==
    [][ /\ ( /\ Calls(1, "reply") /\ ElementsValid
             /\ ~sent /\ ~IsExpired /\ ExpectedType # 3 )
           => IF TooLong
              THEN /\ calls'[1] = Returned("reply", "InvalidArgument")
                   /\ sent' = sent /\ editable' = editable
              ELSE calls'[1].pc = "post"
        /\ (Calls(1, "edit") /\ ElementsValid /\ editable)
           => IF TooLong
              THEN /\ calls'[1] = Returned("edit", "InvalidArgument")
                   /\ sent' = sent /\ editable' = editable
              ELSE calls'[1] = Awaiting("edit", "patch")
      ]_vars

\* C15: a reply with exactly 10 embeds awaits its callback request.
C15_Witness ==
    /\ args.op = "reply" /\ ElementsValid
    /\ args.p.embeds.given /\ args.p.embeds.len = 10
    /\ calls[1].pc = "post"

\* C16 (CallSpec): when the callback request of a reply of type 5
\* (explicit or resolved) returns, the reply returns None in that step
\* with sent and editable true, whatever ephemeral, delete_after and
\* fetch_response_message are: no delayed delete is created and no fetch
\* is awaited.
C16_Type5Editable ==
    [][ (CallbackSucceeds(1) /\ ExpectedType = 5)
          => /\ sent' /\ editable'
             /\ calls'[1] = Returned("reply", "None")
             /\ tasks' = tasks
      ]_vars

\* C16: an ephemeral reply without content, embed or type has returned
\* None from its callback; the response is editable, no delayed delete
\* exists, and an edit made after it awaits its PATCH.
C16_Witness ==
    /\ args.op = "reply" /\ args.eph /\ args.type = NoType
    /\ ExpectedType = 5
    /\ calls[1] = Returned("reply", "None")
    /\ sent /\ editable
    /\ \A t \in TaskIds : tasks[t] = "none"
    /\ calls[2] = Awaiting("edit", "patch")

\* C17 (CallSpec): a reply routed to channel.send (sent, expired or type 3)
\* on an interaction without a channel does not end with an error, and
\* leaves sent and editable unchanged.
C17_NoChannelNoError ==
    [][ ( /\ Calls(1, "reply") /\ ~hasChannel
          /\ (sent \/ IsExpired \/ ExpectedType = 3) )
          => /\ calls'[1].res \notin Errors
             /\ sent' = sent /\ editable' = editable
      ]_vars

\* C18 (Spec): under any interleaving of reply calls, a callback POST is
\* issued only while sent is false and no other callback POST of the
\* interaction is in flight.
C18_CallbackOnce ==
    [][ \A c \in Callers :
          Issues(c, "post")
            => /\ ~sent
               /\ \A d \in Callers \ {c} : calls[d].pc # "post"
      ]_vars

\* C19 (Spec): in every reachable state, under any interleaving of reply,
\* edit, delete, followup and the delayed delete, editable implies sent:
\* the flags are (false, false), (true, false) or (true, true).
C19_EditableImpliesSent == editable => sent

\* C19: sent is true and editable false after a delete has returned, with
\* a followup made beside it.
C19_Witness ==
    /\ sent /\ ~editable
    /\ calls[1] = Returned("delete", "None")
    /\ calls[2] = Returned("followup", "Message")

\* A delete, a caller's or the delayed one, has just returned from its
\* DELETE request.
DeleteSucceeded ==
    \/ \E c \in Callers : calls[c] = Returned("delete", "None")
    \/ \E t \in TaskIds : tasks[t] = "done"

\* C20 (SeqSpec): when calls do not overlap, from the return of a
\* successful delete on, editable is false and no call awaits a callback
\* POST, a PATCH or a DELETE: replies go to channel.send, and edit and
\* delete end without a request.
C20_AfterDeleteStaysUneditable ==
    [] ( DeleteSucceeded
         => [] ( /\ sent /\ ~editable
                 /\ \A c \in Callers :
                      calls[c].pc \notin {"post", "fetch", "patch", "delete"}
                 /\ \A t \in TaskIds : tasks[t] # "delete" ) )

\* C20: after a delete by the other flow has returned, a reply is
\* suspended at channel.send and editable is false.
C20_Witness ==
    /\ calls[2] = Returned("delete", "None")
    /\ calls[1] = Awaiting("reply", "send")
    /\ sent /\ ~editable

====
